---- MODULE Spec2Model ----
(***************************************************************************)
(* A model of the tus 1.0.0 resumable-upload server of                     *)
(* src/tus/tus_server_1_0_0.py (class TusServer) with its metadata store   *)
(* (src/tus/db.py, table tus_files) and its mime classifier                *)
(* (src/tus/mime_types.py).                                                *)
(*                                                                         *)
(* The state is the table of upload records, the work directory (one       *)
(* folder per upload holding a .part accumulator and a .stream scratch     *)
(* file), the long-term storage directory and the clock.  Every HTTP       *)
(* handler is one action; the request headers, the body and what the       *)
(* environment does to the request (client disconnect, I/O failure, the    *)
(* random file-name suffix) are the action's inputs.                       *)
(*                                                                         *)
(* Conventions: a Python None is the empty tuple <<>> and a present value  *)
(* v is <<v>>; a byte string is a sequence over Bytes; a Python dict is a  *)
(* function over its keys.                                                 *)
(***************************************************************************)
EXTENDS Integers, Sequences, FiniteSets, TLC

VARIABLES
    records,            \* tus_files table: upload id -> row
    dirs,               \* ids whose work folder <work>/<id>/ exists
    part,               \* id -> content of <work>/<id>/<prefix><id>.part, where it exists
    stream,             \* id -> content of <work>/<id>/<prefix><id>.stream, where it exists
    lts,                \* long-term path -> content, for the files that exist
    now,                \* datetime.utcnow(), in minutes
    boot,               \* the minute at which the running server process imported db.py
    nextId,             \* the next value uuid4() returns
    file_match_policy,  \* TUS_FILE_MATCH_POLICY
    received,           \* history: id -> the body bytes the server accepted into .part
    calls,              \* caller -> the PATCH whose body the server is reading for it
    last                \* the last request and the response it got

vars ==
    <<records, dirs, part, stream, lts, now, boot, nextId, file_match_policy, received, calls,
      last>>

(***************************************************************************)
(* Bounds of the model.                                                    *)
(***************************************************************************)
MaxBody == 2
MaxPart == 2
MaxTime == 2
MaxMembers == 2

(***************************************************************************)
(* Configuration (.env).                                                   *)
(***************************************************************************)
TUS_EXPIRE == 1
TUS_MAX_FILE_SIZE == 2
file_sort_policy == TRUE

None == <<>>
Some(v) == <<v>>

IDS == {1, 2, 3}
Bytes == {"P", "x"}
OCTET == "application/offset+octet-stream"

RECURSIVE SeqsUpTo(_)
SeqsUpTo(n) ==
    IF n = 0 THEN {<<>>}
    ELSE LET S == SeqsUpTo(n - 1)
         IN  S \cup {Append(s, b) : s \in {t \in S : Len(t) = n - 1}, b \in Bytes}

Bodies == SeqsUpTo(MaxBody)

Put(f, k, v) == [x \in (DOMAIN f) \cup {k} |-> IF x = k THEN v ELSE f[x]]
Drop(f, k) == [x \in (DOMAIN f) \ {k} |-> f[x]]

(***************************************************************************)
(* mime_types.py                                                           *)
(***************************************************************************)
audio_types == {"audio/aac", "audio/ogg", "audio/oga", "audio/mpeg", "audio/webm",
                "audio/wave", "audio/wav"}
video_types == {"video/mp4", "video/mpeg", "video/ogg", "video/ogv", "video/jpeg",
                "video/x-msvideo", "video/webm", "video/x-matroska"}
image_types == {"image/jpeg", "image/pjpeg", "image/png", "image/apng", "image/avif",
                "image/gif", "image/webp", "image/svg+xml"}

\* an allow-list that allows every type (a faulty variant)
every_mime_supported(mt) == TRUE

is_supported_mime(mt) == mt \in (audio_types \cup video_types \cup image_types)

\* magic.from_file(path, mime=True): the type is decided by the leading bytes.
\* "P" stands for the PNG signature; any other content sniffs as text.
get_mime_type(content) ==
    IF content = <<>> THEN "application/x-empty"
    ELSE IF content[1] = "P" THEN "image/png"
    ELSE "text/plain"

\* re.split('/', mime): <<subfolder, file_extension>>
SplitMime(mime) ==
    CASE mime = "image/png" -> <<"image", "png">>
      [] mime = "image/gif" -> <<"image", "gif">>
      [] mime = "text/plain" -> <<"text", "plain">>
      [] OTHER -> <<"application", "x-empty">>

(***************************************************************************)
(* The checksum verifier.  hashlib digests are modelled as collision-free: *)
(* the digest of a byte string is a tag around the string itself.          *)
(***************************************************************************)
Hash(content) == [of |-> content]
ZeroDigest == [of |-> <<"0">>]
NoChecksum == [kind |-> "none"]
EmptyChecksum == [kind |-> "empty"]
\* An Upload-Checksum header with a value: `spaces` is the number of spaces
\* of the stripped value, alg the text before the first one, and the text
\* after it has `len` characters, all hexadecimal or not (hexchars), and is
\* the digest hex when the header is of the right form.
Header(spaces, alg, len, hexchars, d) ==
    [kind |-> "digest", spaces |-> spaces, alg |-> alg, len |-> len, hexchars |-> hexchars,
     hex |-> d]

checksum_lengths ==
    [md5 |-> 32, sha1 |-> 40, sha224 |-> 56, sha256 |-> 64, sha384 |-> 96, sha512 |-> 128,
     sha3_224 |-> 56, sha3_256 |-> 64, sha3_384 |-> 96, sha3_512 |-> 128]

\* the header "sha1 <40 hex characters>"
Checksum(d) == Header(1, "sha1", checksum_lengths["sha1"], TRUE, d)

\* `alg in self.tus_supported_checksums`: the list is one comma-joined string,
\* so the test is a substring test; "sha" is a substring that is no name
tus_supported_checksums == (DOMAIN checksum_lengths) \cup {"sha"}

\* the header gives an algorithm and a digest only with exactly one space
HasAlgorithm(chk) == chk.kind = "digest" /\ chk.spaces = 1

is_valid_checksum(chk) == chk.len = checksum_lengths[chk.alg] /\ chk.hexchars

\* a verifier that accepts every digest (a faulty variant)
accept_any_checksum(content, checksum) == TRUE

is_valid_file_checksum(content, checksum) == Hash(content) = checksum

\* The header checks of create_new_upload and resume_existing_upload: 460 for
\* an empty header, for an algorithm that is not in the list and for a digest
\* of the wrong shape, 500 where checksum_lengths[algorithm] raises KeyError,
\* 0 (go on) otherwise.
verify_checksum_header(chk) ==
    IF chk.kind = "empty" THEN 460
    ELSE IF ~HasAlgorithm(chk) THEN 0
    ELSE IF chk.alg \notin tus_supported_checksums THEN 460
    ELSE IF chk.alg \notin DOMAIN checksum_lengths THEN 500
    ELSE IF ~is_valid_checksum(chk) THEN 460
    ELSE 0

(***************************************************************************)
(* The store and the file layout, as operators on a "world"                *)
(* [records, dirs, part, stream, lts].                                     *)
(***************************************************************************)
World ==
    [records |-> records, dirs |-> dirs, part |-> part, stream |-> stream, lts |-> lts,
     boot |-> boot, now |-> now]

fetch_file_record(w, u) == IF u \in DOMAIN w.records THEN Some(w.records[u]) ELSE None

\* the default of the time_expires column: db.py computes it once, when the
\* module is imported, so every row a server process adds expires TUS_EXPIRE
\* minutes after that process started
column_default(w) == w.boot + TUS_EXPIRE

\* the server default of the time_created column: func.now() at the insert
server_default(w) == w.now

\* TusFiles(...): the row create_file_record adds
TusFiles(time_created, time_expires, length, deferred, concatenation, id_list, metadata) ==
    [time_created |-> time_created,
     upload_length |-> length,
     upload_offset |-> 0,
     upload_length_deferred |-> deferred,
     upload_concatenation |-> concatenation,
     upload_concat_id_list |-> id_list,
     upload_metadata |-> metadata,
     upload_complete |-> FALSE,
     upload_lts_path |-> None,
     time_expires |-> time_expires]

create_file_record(w, u, row) == [w EXCEPT !.records = Put(@, u, row)]

create_new_upload_file(w, u) ==
    [w EXCEPT !.dirs = @ \cup {u}, !.part = Put(@, u, <<>>)]

clean_uuid(w, u) ==
    [w EXCEPT !.dirs = @ \ {u}, !.part = Drop(@, u), !.stream = Drop(@, u)]

\* a removal that forgets the work folder (a faulty variant)
remove_row_only(w, u) == [w EXCEPT !.records = Drop(@, u)]

remove_uuid(w, u) ==
    LET c == clean_uuid(w, u) IN [c EXCEPT !.records = Drop(@, u)]

RECURSIVE RemoveAll(_, _)
RemoveAll(w, S) ==
    IF S = {} THEN w
    ELSE LET u == CHOOSE x \in S : TRUE IN RemoveAll(remove_uuid(w, u), S \ {u})

\* a query without its filter (a faulty variant)
all_records(w, time_now) == DOMAIN w.records

expired_records(w, time_now) ==
    {u \in DOMAIN w.records : w.records[u].time_expires < time_now}

remove_expired_uploads(w, time_now) == RemoveAll(w, expired_records(w, time_now))

\* a size that is read once, when the file is made (a faulty variant)
size_at_creation(w, u) == 0

\* os.path.getsize of the .part file (the callers below test os.path.exists)
fetch_binary_file_size(w, u) == Len(w.part[u])

\* an update that is never committed (a faulty variant)
update_not_committed(w, u, filedata) == [w |-> w, st |-> 0]

\* an update without its filter: every row takes the fields (a faulty variant)
update_every_row(w, u, filedata) ==
    [w |-> [w EXCEPT !.records =
                [x \in DOMAIN @ |->
                    [@[x] EXCEPT !.upload_offset = filedata.upload_offset,
                                 !.upload_complete = filedata.upload_complete,
                                 !.upload_lts_path = filedata.upload_lts_path]]],
     st |-> 0]

\* update_file_record(hex_uuid, filedata): 500 when the row is gone, else the
\* row takes filedata's fields (time_expires and the id list are not written).
update_file_record(w, u, filedata) ==
    IF u \notin DOMAIN w.records
    THEN [w |-> w, st |-> 500]
    ELSE [w |-> [w EXCEPT !.records[u] =
                    [@ EXCEPT !.upload_length = filedata.upload_length,
                              !.upload_offset = filedata.upload_offset,
                              !.upload_length_deferred = filedata.upload_length_deferred,
                              !.upload_concatenation = filedata.upload_concatenation,
                              !.upload_metadata = filedata.upload_metadata,
                              !.upload_complete = filedata.upload_complete,
                              !.upload_lts_path = filedata.upload_lts_path]],
          st |-> 0]

(***************************************************************************)
(* write_stream_to_file.  What the environment does to the request body:   *)
(*   ok          the whole body arrives                                    *)
(*   disconnect  ClientDisconnect after n bytes (logged, handler goes on)  *)
(*   error       any other exception after n bytes (500)                   *)
(***************************************************************************)
Arrived(body, out) == IF out.kind = "ok" THEN body ELSE SubSeq(body, 1, out.n)

\* the scratch file written over the .part file (a faulty variant)
OverwritePart(old, data) == data

\* Lines 568-581: the scratch file is appended to the .part file.
AppendToPart(old, data) == old \o data

\* a writer that appends to the .part file before it verifies the digest
\* (a faulty variant)
append_then_verify(w, u, chk, body, out) ==
    LET data == Arrived(body, out)
        w2 == [w EXCEPT !.part[u] = AppendToPart(@, data)]
    IN  IF HasAlgorithm(chk) /\ ~is_valid_file_checksum(data, chk.hex)
        THEN [w |-> w2, st |-> 460, wrote |-> None]
        ELSE LET r == update_file_record(w2, u,
                         [w2.records[u] EXCEPT !.upload_offset = fetch_binary_file_size(w2, u)])
             IN  [w |-> r.w, st |-> r.st, wrote |-> Some(data)]

\* a scratch file opened for writing whether it exists or not (a faulty variant)
open_shared(w, u) ==
    [w |-> [w EXCEPT !.stream = Put(@, u, IF u \in DOMAIN @ THEN @[u] ELSE <<>>)], st |-> 0]

\* line 544: open(fn, "x") makes the empty scratch file, and raises
\* FileExistsError (500) when the file is there
open_stream(w, u) ==
    IF u \in DOMAIN w.stream THEN [w |-> w, st |-> 500]
    ELSE [w |-> [w EXCEPT !.stream = Put(@, u, <<>>)], st |-> 0]

\* a writer that makes the work folder again when it is gone (a faulty variant)
write_chunk_makedirs(w, u, data) ==
    [w |-> [w EXCEPT !.dirs = @ \cup {u},
                     !.stream = Put(@, u, (IF u \in DOMAIN @ THEN @[u] ELSE <<>>) \o data)],
     st |-> 0]

\* lines 549-551: one chunk of the body is appended to the scratch file,
\* which is opened anew for each chunk (open(fn, 'ab')).  When the work
\* folder is gone the open raises FileNotFoundError, which line 555 turns
\* into a 500.
write_chunk(w, u, data) ==
    IF u \notin w.dirs THEN [w |-> w, st |-> 500]
    ELSE [w |-> [w EXCEPT !.stream = Put(@, u, (IF u \in DOMAIN @ THEN @[u] ELSE <<>>) \o data)],
          st |-> 0]

\* lines 560-592: the scratch file is verified, appended to the .part file
\* and removed, and the row's offset is set to the new size
append_stream(w, u, chk) ==
    IF u \notin DOMAIN w.stream
    THEN \* the scratch file is gone: FileNotFoundError
         [w |-> w, st |-> 500, wrote |-> None]
    ELSE LET data == w.stream[u] IN
    IF HasAlgorithm(chk) /\ ~is_valid_file_checksum(data, chk.hex)
    THEN \* os.remove(fn); 460
         [w |-> [w EXCEPT !.stream = Drop(@, u)], st |-> 460, wrote |-> None]
    ELSE \* open(pf, 'ab') makes the .part file when it is not there
         LET old == IF u \in DOMAIN w.part THEN w.part[u] ELSE <<>>
             w2 == [w EXCEPT !.part = Put(@, u, AppendToPart(old, data)),
                             !.stream = Drop(@, u)]
             r == update_file_record(w2, u,
                      [w2.records[u] EXCEPT !.upload_offset = fetch_binary_file_size(w2, u)])
         IN  [w |-> r.w, st |-> r.st, wrote |-> Some(data)]

write_stream_to_file(w, u, chk, body, out) ==
    LET o == open_stream(w, u) IN
    IF o.st # 0 THEN [w |-> w, st |-> o.st, wrote |-> None]
    ELSE LET c == write_chunk(o.w, u, Arrived(body, out)) IN
         IF c.st # 0 THEN [w |-> c.w, st |-> c.st, wrote |-> None]
         ELSE IF out.kind = "error"
         THEN \* the scratch file stays behind with what arrived
              [w |-> c.w, st |-> 500, wrote |-> None]
         ELSE append_stream(c.w, u, chk)

(***************************************************************************)
(* fetch_lts_file_name, save_lts_file.  A long-term path is                *)
(* <<subfolder, file_name, suffix, file_extension>>.                       *)
(***************************************************************************)
RandSuffixes == {"R1", "R2"}

\* os.path.splitext(filename)[0]
splitext(filename) == IF filename = "out.bin" THEN "out" ELSE filename

fetch_lts_file_name(w, u, mime, rnd) ==
    LET md == w.records[u].upload_metadata
        subfolder == IF file_sort_policy THEN SplitMime(mime)[1] ELSE ""
        ext == SplitMime(mime)[2]
    IN  IF "filename" \notin DOMAIN md
        THEN \* dict_upload_metadata['filename'] raises KeyError
             [w |-> w, st |-> 500, path |-> None]
        ELSE LET lts_path == <<subfolder, splitext(md["filename"]), "", ext>>
             IN  IF lts_path \in DOMAIN w.lts
                 THEN IF file_match_policy = "RENAME"
                      THEN \* returns from inside the while loop, after one draw
                           [w |-> w, st |-> 0,
                            path |-> Some(<<subfolder, splitext(md["filename"]), rnd, ext>>)]
                      ELSE \* REPLACE: os.remove(lts_path)
                           [w |-> [w EXCEPT !.lts = Drop(@, lts_path)], st |-> 0,
                            path |-> Some(lts_path)]
                 ELSE [w |-> w, st |-> 0, path |-> Some(lts_path)]

\* os.rename(.part, fpath); a failed rename is logged and swallowed, and then
\* the reap is skipped too.
save_lts_file(w, u, fpath, renameOk, time_now) ==
    IF ~renameOk THEN w
    ELSE remove_expired_uploads(
             [w EXCEPT !.lts = Put(@, fpath, w.part[u]), !.part = Drop(@, u)],
             time_now)

(***************************************************************************)
(* The tail shared by create_new_upload (lines 219-265) and                *)
(* resume_existing_upload (lines 434-478): compare the .part size with the *)
(* declared length and, when they agree, complete the upload.              *)
(***************************************************************************)
IsComplete(upload_length, file_offset) == upload_length = Some(file_offset)

\* pre_file_complete and post_file_complete are methods an embedder
\* overrides; the handlers call them outside any try block.  A hook outcome
\* names the hook that raises: none ("ok"), the one before the move ("pre")
\* or the one after it ("post").
HookOutcomes == {"ok", "pre", "post"}

complete_upload(w, u, file_offset, rnd, renameOk, hook, time_now) ==
    LET file_record == w.records[u]
    IN  IF IsComplete(file_record.upload_length, file_offset)
        THEN IF ~file_record.upload_concatenation
             THEN LET file_mime_type == get_mime_type(w.part[u]) IN
                  IF ~is_supported_mime(file_mime_type)
                  THEN [w |-> remove_uuid(w, u), st |-> 415, saved |-> None]
                  ELSE LET n == fetch_lts_file_name(w, u, file_mime_type, rnd) IN
                       IF n.st # 0
                       THEN [w |-> n.w, st |-> n.st, saved |-> None]
                       ELSE IF hook = "pre"
                       THEN \* pre_file_complete raises: nothing after it runs
                            [w |-> n.w, st |-> 500, saved |-> None]
                       ELSE LET w2 == save_lts_file(n.w, u, n.path[1], renameOk, time_now)
                                r == update_file_record(w2, u,
                                        [file_record EXCEPT !.upload_offset = file_offset,
                                                            !.upload_complete = TRUE,
                                                            !.upload_lts_path = n.path])
                            IN  IF hook = "post"
                                THEN \* post_file_complete raises: the row is not updated
                                     [w |-> w2, st |-> 500,
                                      saved |-> IF renameOk THEN n.path ELSE None]
                                ELSE [w |-> r.w, st |-> r.st,
                                      saved |-> IF renameOk THEN n.path ELSE None]
             ELSE LET r == update_file_record(w, u,
                              [file_record EXCEPT !.upload_offset = file_offset,
                                                  !.upload_complete = TRUE])
                  IN  [w |-> r.w, st |-> r.st, saved |-> None]
        ELSE LET r == update_file_record(w, u,
                         [file_record EXCEPT !.upload_offset = file_offset])
             IN  [w |-> r.w, st |-> r.st, saved |-> None]

(***************************************************************************)
(* PATCH /{uuid}: resume_existing_upload.  ct is the Content-Type header,  *)
(* off the Upload-Offset header, len the Upload-Length header, chk the     *)
(* Upload-Checksum header.  The result is the world after the request, the *)
(* status (0: the handler reached its end, 204), and what it did.          *)
(***************************************************************************)
Failed(w, st) == [w |-> w, st |-> st, offset |-> None, wrote |-> None, saved |-> None]

\* lines 359-428: the checks made before the body is read; st = 0 when the
\* request passes them all
check_patch_headers(w, u, ct, off, len, chk) ==
    IF ct # None /\ ct # Some(OCTET) THEN Failed(w, 415)
    ELSE IF off = None \/ off[1] < 0 THEN Failed(w, 400)
    ELSE IF u \notin DOMAIN w.part THEN Failed(w, 404)   \* fetch_binary_file_size
    ELSE IF fetch_binary_file_size(w, u) # off[1] THEN Failed(w, 409)
    ELSE IF u \notin DOMAIN w.records THEN Failed(w, 404)
    ELSE LET file_record == w.records[u] IN
    IF len = None /\ file_record.upload_length_deferred THEN Failed(w, 400)
    ELSE IF len # None /\ len[1] > TUS_MAX_FILE_SIZE THEN Failed(w, 413)
    ELSE IF len # None /\ len[1] > 0 /\ file_record.upload_length_deferred
    THEN \* the row object is changed in the session, then json.dumps(file_record)
         \* of line 404 raises TypeError
         Failed([w EXCEPT !.records[u].upload_length = len,
                          !.records[u].upload_length_deferred = FALSE], 500)
    ELSE IF verify_checksum_header(chk) # 0 THEN Failed(w, verify_checksum_header(chk))
    ELSE Failed(w, 0)

\* lines 434-484: what follows the body: s is the result of
\* write_stream_to_file
after_stream(s, u, rnd, renameOk, hook, time_now) ==
    IF s.st # 0 THEN Failed(s.w, s.st)
    ELSE LET file_offset == fetch_binary_file_size(s.w, u)
             c == complete_upload(s.w, u, file_offset, rnd, renameOk, hook, time_now)
         IN  [w |-> c.w, st |-> IF c.st = 0 THEN 204 ELSE c.st,
              offset |-> IF c.st = 0 THEN Some(file_offset) ELSE None,
              wrote |-> s.wrote, saved |-> c.saved]

resume_existing_upload(w, u, ct, off, len, chk, body, out, rnd, renameOk, hook, time_now) ==
    LET h == check_patch_headers(w, u, ct, off, len, chk) IN
    IF h.st # 0 THEN h
    ELSE after_stream(write_stream_to_file(w, u, chk, body, out), u, rnd, renameOk, hook, time_now)

(***************************************************************************)
(* Upload-Metadata.  The header is a sequence of <<key, value>> pairs (the *)
(* base64 layer is left out); <<>> is an absent or empty header.           *)
(***************************************************************************)
MetaKeys(h) == {h[i][1] : i \in 1..Len(h)}
MetaDict(h) == [k \in MetaKeys(h) |->
                  h[CHOOSE i \in 1..Len(h) :
                        h[i][1] = k /\ \A j \in 1..Len(h) : h[j][1] = k => j <= i][2]]

parse_meta_data(h) ==
    IF "filename" \notin MetaKeys(h) THEN [st |-> 400, md |-> <<>>]
    ELSE IF "filetype" \notin MetaKeys(h) THEN [st |-> 400, md |-> <<>>]
    ELSE IF Len(h) < 2 THEN [st |-> 400, md |-> <<>>]
    ELSE IF ~is_supported_mime(MetaDict(h)["filetype"])
    THEN \* the warning's f-string reads parsed_metadata['content-type']: KeyError
         [st |-> IF "content-type" \in MetaKeys(h) THEN 415 ELSE 500, md |-> <<>>]
    ELSE [st |-> 0, md |-> MetaDict(h)]

(***************************************************************************)
(* Upload-Concat: final;...  The text after "final;" is a sequence of      *)
(* tokens: 0 is a space, n > 0 is the URL <proto>://<host><prefix>/<n> of  *)
(* upload n.                                                               *)
(***************************************************************************)
RECURSIVE SplitSpace(_)
\* str.split(" ")
SplitSpace(s) ==
    IF \A i \in 1..Len(s) : s[i] # 0 THEN <<s>>
    ELSE LET k == CHOOSE i \in 1..Len(s) : s[i] = 0 /\ \A j \in 1..(i - 1) : s[j] # 0
         IN  <<SubSeq(s, 1, k - 1)>> \o SplitSpace(SubSeq(s, k + 1, Len(s)))

\* lines 809-825: an entry of the list is what is left of an item once the
\* URL prefix is taken off: <<n>> is the id n, <<>> is the empty string.
ParseConcat(text) == SplitSpace(text)

\* UUID(hex=entry) accepts an entry that is one id
IsHexId(entry) == Len(entry) = 1 /\ entry[1] > 0

RECURSIVE MergeBackwards(_, _, _)
\* a merge that puts each member in front of the ones before it (a faulty variant)
MergeBackwards(w, ids, acc) ==
    IF ids = <<>> THEN [data |-> acc, ok |-> TRUE]
    ELSE IF Head(ids) \notin DOMAIN w.part THEN [data |-> acc, ok |-> FALSE]
    ELSE MergeBackwards(w, Tail(ids), w.part[Head(ids)] \o acc)

RECURSIVE MergeParts(_, _, _)
\* lines 939-944: the members' .part files are written in list order; a
\* missing file raises in the middle, with what was written left on disk.
MergeParts(w, ids, acc) ==
    IF ids = <<>> THEN [data |-> acc, ok |-> TRUE]
    ELSE IF Head(ids) \notin DOMAIN w.part THEN [data |-> acc, ok |-> FALSE]
    ELSE MergeParts(w, Tail(ids), acc \o w.part[Head(ids)])

SelectComplete(w, l) == SelectSeq(l, LAMBDA e : w.records[e[1]].upload_complete)
MemberIds(l) == [i \in 1..Len(l) |-> l[i][1]]

assemble_concat(w, id, rnd) ==
    LET file_record == w.records[id]
        file_id_list == file_record.upload_concat_id_list[1]
        file_path_list == MemberIds(SelectComplete(w, file_id_list))
        md == file_record.upload_metadata
    IN  IF "filetype" \notin DOMAIN md THEN [w |-> w, st |-> 500]
        ELSE LET n == fetch_lts_file_name(w, id, md["filetype"], rnd) IN
             IF n.st # 0 THEN [w |-> n.w, st |-> n.st]
             ELSE LET m == MergeParts(n.w, file_path_list, <<>>)
                      w2 == [n.w EXCEPT !.lts = Put(@, n.path[1], m.data)]
                  IN  IF ~m.ok THEN [w |-> w2, st |-> 500]
                      ELSE update_file_record(w2, id,
                               [file_record EXCEPT !.upload_lts_path = n.path,
                                                   !.upload_complete = TRUE])

RECURSIVE ValidateIds(_, _)
\* lines 829-833: the first entry that is no hex id raises ValueError (500),
\* the first that has no row is answered 404.
ValidateIds(w, l) ==
    IF l = <<>> THEN 0
    ELSE IF ~IsHexId(Head(l)) THEN 500
    ELSE IF Head(l)[1] \notin DOMAIN w.records THEN 404
    ELSE ValidateIds(w, Tail(l))

NoFinal(w, st, l) ==
    [w |-> w, st |-> st, created |-> FALSE, unfinished |-> FALSE, parsed |-> l]

process_concat(w, id, meta, text, rnd) ==
    LET file_id_list == ParseConcat(text) IN
    IF ValidateIds(w, file_id_list) # 0 THEN NoFinal(w, ValidateIds(w, file_id_list), file_id_list)
    ELSE LET p == IF meta # <<>> THEN parse_meta_data(meta) ELSE [st |-> 0, md |-> <<>>] IN
    IF p.st # 0 THEN NoFinal(w, p.st, file_id_list)
    ELSE LET w1 == create_file_record(w, id,
                       TusFiles(server_default(w), column_default(w), None, FALSE, TRUE,
                                Some(file_id_list), p.md))
             uploads_complete ==
                 \A i \in 1..Len(file_id_list) : w1.records[file_id_list[i][1]].upload_complete
         IN  IF uploads_complete
             THEN LET a == assemble_concat(w1, id, rnd)
                  IN  [w |-> a.w, st |-> IF a.st = 0 THEN 201 ELSE a.st,
                       created |-> TRUE, unfinished |-> FALSE, parsed |-> file_id_list]
             ELSE [w |-> w1, st |-> 201, created |-> TRUE, unfinished |-> TRUE,
                   parsed |-> file_id_list]

(***************************************************************************)
(* POST: create_new_upload (the final; case is process_concat above).      *)
(* defer is the Upload-Defer-Length header, concat the Upload-Concat       *)
(* header ("none": absent; "partial"; "partials": a value that holds the    *)
(* word partial and more; "other": a value without "partial" and "final;"),*)
(* cl the Content-Length header.                                           *)
(***************************************************************************)
\* `"partial" in upload_concat`: a substring test
HasPartial(concat) == concat \in {"partial", "partials"}

\* `"final;" in upload_concat`
HasFinal(concat) == concat = "final"

\* a rejection that leaves a work folder behind (a faulty variant)
rejected_with_folder(w, st) ==
    [w |-> [w EXCEPT !.dirs = @ \cup {Cardinality(DOMAIN w.records) + 1}], st |-> st,
     created |-> FALSE, offset |-> None, wrote |-> None, saved |-> None]

NotCreated(w, st) ==
    [w |-> w, st |-> st, created |-> FALSE, offset |-> None, wrote |-> None, saved |-> None]

create_new_upload(w, id, meta, len, defer, concat, chk, cl, ct, body, out, rnd, renameOk, hook, time_now) ==
    LET upload_length_deferred == defer = Some(1)
        upload_concatenation == concat = "partial"
    IN
    IF defer # None /\ defer # Some(1) THEN NotCreated(w, 400)
    ELSE IF concat # "none" /\ ~HasPartial(concat) /\ ~HasFinal(concat)
    THEN NotCreated(w, 400)
    ELSE IF len = None /\ defer = None THEN NotCreated(w, 400)
    ELSE IF len # None /\ len[1] > TUS_MAX_FILE_SIZE THEN NotCreated(w, 413)
    ELSE IF ct # None /\ ct # Some(OCTET) THEN NotCreated(w, 400)
    ELSE IF verify_checksum_header(chk) # 0 THEN NotCreated(w, verify_checksum_header(chk))
    ELSE LET p == IF ~upload_concatenation /\ meta # <<>>
                  THEN parse_meta_data(meta) ELSE [st |-> 0, md |-> <<>>] IN
    IF p.st # 0 THEN NotCreated(w, p.st)
    ELSE LET w1 == create_file_record(create_new_upload_file(w, id), id,
                       TusFiles(server_default(w), column_default(w), len, upload_length_deferred,
                                upload_concatenation, None, p.md))
             s == IF cl # None /\ len # None /\ ~upload_length_deferred /\ ct = Some(OCTET)
                  THEN write_stream_to_file(w1, id, chk, body, out)
                  ELSE [w |-> w1, st |-> 0, wrote |-> None]
         IN
    IF s.st # 0
    THEN [w |-> s.w, st |-> s.st, created |-> TRUE, offset |-> None, wrote |-> None,
          saved |-> None]
    ELSE LET upload_offset == fetch_binary_file_size(s.w, id)
             c == complete_upload(s.w, id, upload_offset, rnd, renameOk, hook, time_now)
         IN  [w |-> c.w, st |-> IF c.st = 0 THEN 201 ELSE c.st, created |-> TRUE,
              offset |-> IF c.st = 0 THEN Some(upload_offset) ELSE None,
              wrote |-> s.wrote, saved |-> c.saved]

(***************************************************************************)
(* HEAD /{uuid}, DELETE /{uuid}, GET (the reap).                           *)
(***************************************************************************)
NoInfo(st) == [st |-> st, offset |-> None, defer_length |-> None, upload_length |-> None]

\* The Upload-Length header is str(file_record.upload_length): its value is
\* modelled by the column's value (<<n>>, or <<>> for the text "None").
get_file_info(w, u) ==
    IF u \notin DOMAIN w.records THEN NoInfo(404)
    ELSE IF u \notin DOMAIN w.part THEN NoInfo(404)   \* fetch_binary_file_size
    ELSE LET file_record == w.records[u] IN
         [st |-> 204, offset |-> Some(fetch_binary_file_size(w, u)),
          defer_length |-> IF file_record.upload_length_deferred THEN Some(1) ELSE None,
          upload_length |-> IF file_record.upload_length_deferred THEN None
                            ELSE Some(file_record.upload_length)]

\* GET /{uuid}: for a row that exists the handler reads file_record.complete,
\* an attribute TusFiles does not have: AttributeError, 500.
get_file_binary(w, u) ==
    IF u \notin DOMAIN w.records THEN [st |-> 404, body |-> None]
    ELSE [st |-> 500, body |-> None]

delete_current_upload(w, u) ==
    IF u \notin DOMAIN w.records THEN [w |-> w, st |-> 404]
    ELSE [w |-> remove_uuid(w, u), st |-> 204]

run_remove_expired_uploads(w, time_now) ==
    [w |-> remove_expired_uploads(w, time_now), st |-> 204]

(***************************************************************************)
(* The requests the clients send.                                          *)
(***************************************************************************)
GoodMeta == << <<"filename", "out.bin">>, <<"filetype", "image/png">> >>
TextMeta == << <<"filename", "out.bin">>, <<"filetype", "text/plain">> >>
NameOnlyMeta == << <<"filename", "out.bin">> >>

Ok(body) == [kind |-> "ok", n |-> Len(body)]
Cut(body, k) == [kind |-> k, n |-> Len(body) - 1]

\* the checksum header and the fate of the body: whole or cut short by the
\* client, with no checksum, the body's digest or another digest
Deliveries(body) ==
    {[chk |-> NoChecksum, out |-> Ok(body)],
     [chk |-> Checksum(Hash(body)), out |-> Ok(body)],
     [chk |-> Checksum(ZeroDigest), out |-> Ok(body)]}
    \cup (IF body = <<>> THEN {}
          ELSE {[chk |-> NoChecksum, out |-> Cut(body, "disconnect")],
                [chk |-> Checksum(Hash(body)), out |-> Cut(body, "disconnect")]})

\* Upload-Checksum headers that are not `<algorithm> <hex>`: no space, two
\* spaces, an algorithm that is not supported ("crc32", and "sha", part of a
\* name), a digest one character short, a digest with another character
MalformedHeaders(body) ==
    {Header(0, "sha1", 0, TRUE, Hash(body)),
     Header(2, "sha1", checksum_lengths["sha1"], TRUE, Hash(body)),
     Header(1, "crc32", 8, TRUE, Hash(body)),
     Header(1, "sha", checksum_lengths["sha1"], TRUE, Hash(body)),
     Header(1, "sha1", checksum_lengths["sha1"] - 1, TRUE, Hash(body)),
     Header(1, "sha1", checksum_lengths["sha1"], FALSE, Hash(body))}

\* what the request's checksum header says: its form, and for a header of
\* the right form whether the digest is that of the bytes that arrived
Sum(chk, body) ==
    IF chk.kind # "digest" THEN chk.kind
    ELSE IF chk.spaces # 1 THEN "spaces"
    ELSE IF chk.alg \notin DOMAIN checksum_lengths THEN "algorithm"
    ELSE IF chk.len # checksum_lengths[chk.alg] \/ ~chk.hexchars THEN "shape"
    ELSE IF chk.hex = Hash(body) THEN "match" ELSE "mismatch"

LengthHeaders == {None} \cup {Some(n) : n \in 0..(TUS_MAX_FILE_SIZE + 1)}

PatchReq(ct, off, len, chk, body, out) ==
    [ct |-> ct, off |-> off, len |-> len, chk |-> chk, body |-> body, out |-> out]

Cur(u) == IF u \in DOMAIN part THEN Len(part[u]) ELSE 0
Fits(u) == {b \in Bodies : Cur(u) + Len(b) <= MaxPart}

\* PATCH requests whose headers are wrong somewhere: the Content-Type, a
\* missing, negative or stale Upload-Offset, an empty Upload-Checksum
PatchHeaders(u) ==
    {PatchReq(ct, Some(Cur(u)), None, NoChecksum, <<>>, Ok(<<>>)) :
        ct \in {None, Some("text/plain")}}
    \cup {PatchReq(ct, Some(o), None, NoChecksum, b, Ok(b)) :
            ct \in {Some(OCTET), Some("text/plain")}, o \in (0..MaxPart) \ {Cur(u)},
            b \in {<<>>, <<"P">>}}
    \cup {PatchReq(Some(OCTET), off, None, NoChecksum, <<>>, Ok(<<>>)) :
            off \in {None, Some(-1)}}
    \cup {PatchReq(Some(OCTET), Some(Cur(u)), None, EmptyChecksum, <<>>, Ok(<<>>))}

\* PATCH requests at the current offset, with every body that fits
PatchData(u) ==
    UNION {{PatchReq(Some(OCTET), Some(Cur(u)), None, d.chk, b, d.out) :
              d \in Deliveries(b)} : b \in Fits(u)}

\* PATCH requests at the current offset with a malformed Upload-Checksum
PatchChecksum(u) ==
    UNION {{PatchReq(Some(OCTET), Some(Cur(u)), None, h, b, Ok(b)) :
              h \in MalformedHeaders(b)} : b \in {c \in Fits(u) : Len(c) = 1}}

\* PATCH requests at the current offset whose body ends one byte past
\* max_file_size
PatchOver(u) ==
    {PatchReq(Some(OCTET), Some(Cur(u)), None, NoChecksum, b, Ok(b)) :
        b \in {c \in Bodies : /\ Cur(u) + Len(c) = TUS_MAX_FILE_SIZE + 1
                               /\ \A i \in 1..Len(c) : c[i] = "x"}}

\* PATCH requests at the current offset that carry an Upload-Length
PatchLength(u) ==
    {PatchReq(Some(OCTET), Some(Cur(u)), len, NoChecksum, b, Ok(b)) :
        len \in LengthHeaders \ {None}, b \in {c \in Fits(u) : Len(c) <= 1}}

PostReq(meta, len, defer, concat, chk, cl, ct, body, out) ==
    [meta |-> meta, len |-> len, defer |-> defer, concat |-> concat, chk |-> chk,
     cl |-> cl, ct |-> ct, body |-> body, out |-> out]

\* creation without a body
PostPlain ==
    {PostReq(meta, len, defer, concat, NoChecksum, None, None, <<>>, Ok(<<>>)) :
        meta \in {<<>>, GoodMeta}, len \in LengthHeaders \ {Some(TUS_MAX_FILE_SIZE + 1)},
        defer \in {None, Some(1)}, concat \in {"none", "partial"}}

\* one request per header check
PostRejected ==
    {PostReq(GoodMeta, Some(1), Some(0), "none", NoChecksum, None, None, <<>>, Ok(<<>>)),
     PostReq(GoodMeta, Some(1), None, "other", NoChecksum, None, None, <<>>, Ok(<<>>)),
     PostReq(GoodMeta, Some(1), None, "partials", NoChecksum, None, None, <<>>, Ok(<<>>)),
     PostReq(GoodMeta, Some(TUS_MAX_FILE_SIZE + 1), None, "none", NoChecksum, None, None,
             <<>>, Ok(<<>>)),
     PostReq(GoodMeta, Some(1), None, "none", NoChecksum, None, Some("text/plain"),
             <<>>, Ok(<<>>)),
     PostReq(GoodMeta, Some(1), None, "none", EmptyChecksum, None, None, <<>>, Ok(<<>>)),
     PostReq(TextMeta, Some(1), None, "none", NoChecksum, None, None, <<>>, Ok(<<>>)),
     PostReq(NameOnlyMeta, Some(1), None, "none", NoChecksum, None, None, <<>>, Ok(<<>>))}

\* creation-with-upload
PostWithBody ==
    {PostReq(meta, Some(n), None, concat, NoChecksum, Some(Len(b)), Some(OCTET), b, Ok(b)) :
        meta \in {<<>>, GoodMeta}, n \in 1..TUS_MAX_FILE_SIZE, concat \in {"none", "partial"},
        b \in Bodies}
    \cup UNION {{PostReq(GoodMeta, Some(n), None, "none", d.chk, Some(Len(b)), Some(OCTET),
                         b, d.out) :
                   n \in 1..TUS_MAX_FILE_SIZE, d \in Deliveries(b)} : b \in Bodies}

\* creation-with-upload with a malformed Upload-Checksum
PostChecksum ==
    {PostReq(GoodMeta, Some(TUS_MAX_FILE_SIZE), None, "none", h, Some(1), Some(OCTET),
             <<"P">>, Ok(<<"P">>)) : h \in MalformedHeaders(<<"P">>)}

\* Upload-Concat: final;<text>: the URLs of one to MaxMembers uploads with a
\* space between them, with or without a space after "final;"
RECURSIVE IdLists(_)
IdLists(n) ==
    IF n = 0 THEN {<<>>}
    ELSE LET S == IdLists(n - 1)
         IN  S \cup {Append(l, i) : l \in {t \in S : Len(t) = n - 1}, i \in IDS}

RECURSIVE Join(_)
Join(l) == IF Len(l) <= 1 THEN l ELSE <<Head(l), 0>> \o Join(Tail(l))

FinalTexts ==
    {lead \o Join(l) : lead \in {<<>>, <<0>>}, l \in IdLists(MaxMembers) \ {<<>>}}

\* finals that are rejected: a member that was never created, alone or after
\* a member, and metadata without filetype
RejectedFinals ==
    {[text |-> <<3>>, meta |-> GoodMeta], [text |-> <<1, 0, 3>>, meta |-> GoodMeta],
     [text |-> <<1>>, meta |-> NameOnlyMeta]}

\* the ids the URLs of a header text name, in header order
UrlIds(text) == SelectSeq(text, LAMBDA t : t # 0)

\* fetch_rand_string(): the draws that can make a difference in this state
Draws ==
    IF file_match_policy = "RENAME" /\ DOMAIN lts # {} THEN RandSuffixes ELSE {"R1"}

(***************************************************************************)
(* The actions: one per handler.                                           *)
(***************************************************************************)
SetWorld(w) ==
    /\ records' = w.records
    /\ dirs' = w.dirs
    /\ part' = w.part
    /\ stream' = w.stream
    /\ lts' = w.lts

\* the history of an upload ends with its row
History(w, h) == [u \in (DOMAIN h) \cap (DOMAIN w.records) |-> h[u]]
Prior(u) == IF u \in DOMAIN received THEN received[u] ELSE <<>>

Patch(u, q, rnd, renameOk, hook, seen) ==
    /\ \E r \in {resume_existing_upload(World, u, q.ct, q.off, q.len, q.chk, q.body, q.out,
                                        rnd, renameOk, hook, now)} :
          /\ SetWorld(r.w)
          /\ received' = History(r.w, IF r.wrote = None THEN received
                                      ELSE Put(received, u, Prior(u) \o r.wrote[1]))
          /\ last' = IF ~seen THEN [op |-> "none"]
                      ELSE [op |-> "PATCH", id |-> u, ct |-> q.ct, off |-> q.off,
                            len |-> q.len, sum |-> Sum(q.chk, Arrived(q.body, q.out)), out |-> q.out.kind,
                            rename |-> renameOk, hook |-> hook,
                            status |-> r.st, offset |-> r.offset, wrote |-> r.wrote,
                            saved |-> r.saved]
    /\ UNCHANGED <<now, boot, nextId, file_match_policy, calls>>

Post(q, rnd, renameOk, hook, seen) ==
    /\ \E r \in {create_new_upload(World, nextId, q.meta, q.len, q.defer, q.concat, q.chk,
                                   q.cl, q.ct, q.body, q.out, rnd, renameOk, hook, now)} :
          /\ SetWorld(r.w)
          /\ nextId' = IF r.created THEN nextId + 1 ELSE nextId
          /\ received' = History(r.w, IF r.wrote = None THEN received
                                      ELSE Put(received, nextId, r.wrote[1]))
          /\ last' = IF ~seen THEN [op |-> "none"]
                      ELSE [op |-> "POST", id |-> nextId, concat |-> q.concat,
                            len |-> q.len, defer |-> q.defer, meta |-> q.meta,
                            sum |-> Sum(q.chk, Arrived(q.body, q.out)),
                            out |-> q.out.kind, with_body |-> q.cl # None, rename |-> renameOk, hook |-> hook,
                            status |-> r.st, offset |-> r.offset, wrote |-> r.wrote,
                            saved |-> r.saved, created |-> r.created]
    /\ UNCHANGED <<now, boot, file_match_policy, calls>>

PostFinal(text, meta, rnd) ==
    /\ \E r \in {process_concat(World, nextId, meta, text, rnd)} :
          /\ SetWorld(r.w)
          /\ nextId' = IF r.created THEN nextId + 1 ELSE nextId
          /\ received' = History(r.w, received)
          /\ last' = [op |-> "POST", id |-> nextId, concat |-> "final", text |-> text,
                      has_meta |-> meta # <<>>, parsed |-> r.parsed, status |-> r.st,
                      created |-> r.created, unfinished |-> r.unfinished]
    /\ UNCHANGED <<now, boot, file_match_policy, calls>>

Head_(u) ==
    /\ \E r \in {get_file_info(World, u)} :
          last' = [op |-> "HEAD", id |-> u, status |-> r.st, offset |-> r.offset,
                   defer_length |-> r.defer_length, upload_length |-> r.upload_length]
    /\ UNCHANGED <<records, dirs, part, stream, lts, now, boot, nextId, file_match_policy, calls,
                   received>>

Get(u) ==
    /\ \E r \in {get_file_binary(World, u)} :
          last' = [op |-> "GET", id |-> u, status |-> r.st, body |-> r.body]
    /\ UNCHANGED <<records, dirs, part, stream, lts, now, boot, nextId, file_match_policy, calls,
                   received>>

Delete(u) ==
    /\ \E r \in {delete_current_upload(World, u)} :
          /\ SetWorld(r.w)
          /\ received' = History(r.w, received)
          /\ last' = [op |-> "DELETE", id |-> u, status |-> r.st]
    /\ UNCHANGED <<now, boot, nextId, file_match_policy, calls>>

Reap ==
    /\ \E r \in {run_remove_expired_uploads(World, now)} :
          /\ SetWorld(r.w)
          /\ received' = History(r.w, received)
          /\ last' = [op |-> "REAP", status |-> r.st]
    /\ UNCHANGED <<now, boot, nextId, file_match_policy, calls>>

Tick ==
    /\ now < MaxTime
    /\ now' = now + 1
    /\ last' = [op |-> "none"]
    /\ UNCHANGED <<records, dirs, part, stream, lts, boot, nextId, file_match_policy, received,
                 calls>>

\* the server process is started again: db.py is imported anew, the table,
\* the work folders and the long-term files are those on disk
Restart ==
    /\ boot < now
    /\ boot' = now
    /\ last' = [op |-> "none"]
    /\ UNCHANGED <<records, dirs, part, stream, lts, now, nextId, file_match_policy, received,
                 calls>>

(***************************************************************************)
(* Spec: the life of one upload, from its POST to its end, under every     *)
(* request form above.  Uploads share nothing but the long-term directory, *)
(* which starts with or without files of earlier uploads under the names   *)
(* this upload can get.                                                    *)
(***************************************************************************)
OldPath == <<"image", "out", "", "png">>
OldPathR1 == <<"image", "out", "R1", "png">>
OldFiles == {<<>>, [p \in {OldPath} |-> <<"x">>], [p \in {OldPath, OldPathR1} |-> <<"x">>]}

InitWith(files) ==
    /\ records = <<>>
    /\ dirs = {}
    /\ part = <<>>
    /\ stream = <<>>
    /\ lts \in files
    /\ now = 0
    /\ boot = 0
    /\ nextId = 1
    /\ file_match_policy \in {"RENAME", "REPLACE"}
    /\ received = <<>>
    /\ calls = <<>>
    /\ last = [op |-> "none"]

Init == InitWith(OldFiles)

Next ==
    \/ \E q \in PostPlain \cup PostRejected \cup PostWithBody \cup PostChecksum, rnd \in Draws :
          nextId <= 1 /\ Post(q, rnd, TRUE, "ok", TRUE)
    \/ \E u \in {1} :
          \E q \in PatchHeaders(u) \cup PatchData(u) \cup PatchChecksum(u) \cup PatchLength(u)
                    \cup PatchOver(u), rnd \in Draws :
             Patch(u, q, rnd, TRUE, "ok", TRUE)
    \/ \E f \in RejectedFinals, rnd \in Draws : PostFinal(f.text, f.meta, rnd)
    \/ \E u \in {1} : Head_(u)
    \/ \E u \in {1} : Get(u)
    \/ \E u \in {1} : Delete(u)

Spec == Init /\ [][Next]_vars

(***************************************************************************)
(* SpecConcat: up to three uploads, created with their first bytes and     *)
(* continued by plain PATCH requests, and the final concatenations that    *)
(* name them, and DELETE.  The responses to the final POSTs and to the     *)
(* DELETEs are the ones observed.                                          *)
(***************************************************************************)
MemberPosts ==
    {PostReq(<<>>, Some(1), None, "partial", NoChecksum, Some(Len(b)), Some(OCTET), b, Ok(b)) :
        b \in Bodies}
    \cup {PostReq(GoodMeta, Some(1), None, "none", NoChecksum, Some(Len(b)), Some(OCTET), b,
                  Ok(b)) : b \in {<<>>, <<"P">>}}

MemberPatches(u) ==
    {PatchReq(Some(OCTET), Some(Cur(u)), None, NoChecksum, b, Ok(b)) : b \in Fits(u) \ {<<>>}}

InitConcat == InitWith({<<>>})

NextConcat ==
    \/ \E q \in MemberPosts, rnd \in Draws : nextId <= 2 /\ Post(q, rnd, TRUE, "ok", FALSE)
    \/ \E u \in IDS : \E q \in MemberPatches(u), rnd \in Draws : Patch(u, q, rnd, TRUE, "ok", FALSE)
    \/ \E text \in FinalTexts, meta \in {<<>>, GoodMeta}, rnd \in Draws :
          nextId \in IDS /\ PostFinal(text, meta, rnd)
    \/ \E u \in IDS : Delete(u)

SpecConcat == InitConcat /\ [][NextConcat]_vars

(***************************************************************************)
(* SpecFault: one upload whose requests meet the failures of the           *)
(* environment: the body stream that raises, the client that disconnects,  *)
(* the rename to long-term storage that fails, the completion hook of the  *)
(* embedder that raises.                                                   *)
(***************************************************************************)
FaultDeliveries(body) ==
    {[chk |-> NoChecksum, out |-> Ok(body)]}
    \cup (IF body = <<>> THEN {}
          ELSE {[chk |-> NoChecksum, out |-> Cut(body, "error")],
                [chk |-> NoChecksum, out |-> Cut(body, "disconnect")],
                [chk |-> Checksum(Hash(body)), out |-> Cut(body, "disconnect")],
                [chk |-> Checksum(Hash(Arrived(body, Cut(body, "disconnect")))),
                 out |-> Cut(body, "disconnect")]})

FaultPosts ==
    UNION {{PostReq(GoodMeta, Some(n), None, "none", d.chk, Some(Len(b)), Some(OCTET), b,
                    d.out) : n \in 1..TUS_MAX_FILE_SIZE, d \in FaultDeliveries(b)} :
             b \in Bodies}

FaultPatches(u) ==
    UNION {{PatchReq(Some(OCTET), Some(Cur(u)), None, d.chk, b, d.out) :
              d \in FaultDeliveries(b)} : b \in Fits(u)}

InitFault == InitWith({<<>>})

NextFault ==
    \/ \E q \in FaultPosts, rnd \in Draws, renameOk \in BOOLEAN, hook \in HookOutcomes :
          nextId <= 1 /\ Post(q, rnd, renameOk, hook, TRUE)
    \/ \E u \in {1} :
          \E q \in FaultPatches(u), rnd \in Draws, renameOk \in BOOLEAN,
             hook \in HookOutcomes :
             Patch(u, q, rnd, renameOk, hook, TRUE)
    \/ \E u \in {1} : Head_(u)
    \/ \E u \in {1} : Delete(u)

SpecFault == InitFault /\ [][NextFault]_vars

(***************************************************************************)
(* SpecRace: two callers send PATCH requests for one upload.  The handlers *)
(* are coroutines of one event loop: a handler runs alone from one await   *)
(* to the next, and the only awaits of a PATCH are the reads of the body   *)
(* chunks (line 549).  So a PATCH is three kinds of step: the checks and   *)
(* the opening of the scratch file, one step per chunk, and all that       *)
(* follows the body.                                                       *)
(***************************************************************************)
Callers == {"A", "B"}

RacePosts ==
    {PostReq(GoodMeta, Some(TUS_MAX_FILE_SIZE), None, concat, NoChecksum, None, None, <<>>,
             Ok(<<>>)) : concat \in {"none", "partial"}}

\* requests with any offset up to the size of the .part file
RacePatches(u) ==
    UNION {{PatchReq(Some(OCTET), Some(o), None, chk, b, Ok(b)) :
              o \in 0..Cur(u), chk \in {NoChecksum, Checksum(Hash(b))}} :
             b \in Fits(u) \ {<<>>}}

\* the requests being read for this upload were joined by another one that
\* passed the offset check
Overlap(u) ==
    [d \in DOMAIN calls |->
        IF calls[d].id = u THEN [calls[d] EXCEPT !.overlapped = TRUE] ELSE calls[d]]

RaceAnswer(c, u, q, st, r, overlapped) ==
    [op |-> "PATCH", id |-> u, caller |-> c, off |-> q.off, body |-> q.body, status |-> st,
     wrote |-> r.wrote, saved |-> r.saved, overlapped |-> overlapped]

\* lines 359-432 and 544: up to the first read of the body
BeginPatch(c, u, q) ==
    /\ c \notin DOMAIN calls
    /\ LET h == check_patch_headers(World, u, q.ct, q.off, q.len, q.chk)
           o == open_stream(h.w, u)
       IN  IF h.st # 0
           THEN /\ SetWorld(h.w)
                /\ calls' = calls
                /\ last' = RaceAnswer(c, u, q, h.st, h, FALSE)
           ELSE IF o.st # 0
           THEN /\ SetWorld(o.w)
                /\ calls' = Overlap(u)
                /\ last' = RaceAnswer(c, u, q, o.st, Failed(o.w, o.st), FALSE)
           ELSE /\ SetWorld(o.w)
                /\ calls' = Put(calls, c, [id |-> u, q |-> q, got |-> 0, overlapped |-> FALSE])
                /\ last' = [op |-> "none"]
    /\ UNCHANGED <<received, now, boot, nextId, file_match_policy>>

\* lines 549-551: the next chunk of the body, here one byte, arrives; the
\* request ends with 500 when the chunk cannot be written
ReadChunk(c) ==
    /\ c \in DOMAIN calls
    /\ calls[c].got < Len(calls[c].q.body)
    /\ LET u == calls[c].id
           q == calls[c].q
           r == write_chunk(World, u, <<q.body[calls[c].got + 1]>>)
       IN  /\ SetWorld(r.w)
           /\ IF r.st # 0
              THEN /\ calls' = Drop(calls, c)
                   /\ last' = RaceAnswer(c, u, q, r.st, Failed(r.w, r.st), calls[c].overlapped)
              ELSE /\ calls' = [calls EXCEPT ![c].got = @ + 1]
                   /\ last' = [op |-> "none"]
    /\ UNCHANGED <<received, now, boot, nextId, file_match_policy>>

\* lines 549-592 and 434-484: the body has ended: the stream yields its last,
\* empty chunk, and the handler goes on to its end
EndPatch(c, rnd) ==
    /\ c \in DOMAIN calls
    /\ calls[c].got = Len(calls[c].q.body)
    /\ LET u == calls[c].id
           q == calls[c].q
           e == write_chunk(World, u, <<>>)
           r == IF e.st # 0 THEN Failed(e.w, e.st)
                ELSE after_stream(append_stream(e.w, u, q.chk), u, rnd, TRUE, "ok", now)
       IN  /\ SetWorld(r.w)
           /\ received' = History(r.w, IF r.wrote = None THEN received
                                       ELSE Put(received, u, Prior(u) \o r.wrote[1]))
           /\ last' = RaceAnswer(c, u, q, r.st, r, calls[c].overlapped)
    /\ calls' = Drop(calls, c)
    /\ UNCHANGED <<now, boot, nextId, file_match_policy>>

InitRace == InitWith({<<>>})

NextRace ==
    \/ \E q \in RacePosts, rnd \in Draws : nextId <= 1 /\ Post(q, rnd, TRUE, "ok", FALSE)
    \/ \E c \in Callers, u \in {1} : \E q \in RacePatches(u) : BeginPatch(c, u, q)
    \/ \E c \in Callers : ReadChunk(c)
    \/ \E c \in Callers, rnd \in Draws : EndPatch(c, rnd)

SpecRace == InitRace /\ [][NextRace]_vars

(***************************************************************************)
(* SpecGone: the PATCH requests of SpecRace, read chunk by chunk, with the *)
(* requests that remove an upload: DELETE, and the reap (GET on the base   *)
(* path) once the clock has passed the upload's expiry.  Both handlers run *)
(* without an await, so each is one step between two chunks of a PATCH.    *)
(***************************************************************************)
InitGone == InitWith({<<>>})

NextGone ==
    \/ \E q \in RacePosts, rnd \in Draws : nextId <= 1 /\ Post(q, rnd, TRUE, "ok", FALSE)
    \/ \E c \in Callers, u \in {1} : \E q \in RacePatches(u) : BeginPatch(c, u, q)
    \/ \E c \in Callers : ReadChunk(c)
    \/ \E c \in Callers, rnd \in Draws : EndPatch(c, rnd)
    \/ \E u \in {1} : Delete(u)
    \/ Reap
    \/ Tick

SpecGone == InitGone /\ [][NextGone]_vars

(***************************************************************************)
(* SpecExpire: two uploads, the clock, restarts of the server process and  *)
(* the reap of expired uploads.                                            *)
(***************************************************************************)
ExpirePosts ==
    {PostReq(GoodMeta, Some(1), None, "none", NoChecksum, Some(Len(b)), Some(OCTET), b, Ok(b)) :
        b \in {<<>>, <<"P">>}}

InitExpire == InitWith({<<>>})

NextExpire ==
    \/ \E q \in ExpirePosts, rnd \in Draws : nextId <= 2 /\ Post(q, rnd, TRUE, "ok", TRUE)
    \/ \E u \in {1, 2} : \E q \in MemberPatches(u), rnd \in Draws : Patch(u, q, rnd, TRUE, "ok", TRUE)
    \/ \E u \in {1, 2} : Head_(u)
    \/ Reap
    \/ Tick
    \/ Restart

SpecExpire == InitExpire /\ [][NextExpire]_vars

(***************************************************************************)
(* Properties of Spec.                                                     *)
(***************************************************************************)
IsPatch(l) == l.op = "PATCH"
IsUploadPost(l) == l.op = "POST" /\ l.concat # "final"

\* a PATCH for an upload that has a row and a .part file, whose Upload-Offset
\* is not the size of the .part file
Stale(l) ==
    /\ IsPatch(l)
    /\ l.id \in DOMAIN records
    /\ l.id \in DOMAIN part
    /\ l.off # None
    /\ l.off # Some(Len(part[l.id]))

\* C1: a PATCH whose Upload-Offset differs from the size of the upload's .part
\* file changes neither the .part file nor the row nor any other file, and,
\* when it passes the checks the handler makes before the offset check (a
\* Content-Type that is absent or application/offset+octet-stream, an
\* Upload-Offset that is not negative), it is answered 409.
C1_StaleOffsetIs409 ==
    [][Stale(last') =>
          /\ part' = part /\ records' = records /\ stream' = stream /\ lts' = lts
          /\ (last'.ct \in {None, Some(OCTET)} /\ last'.off[1] >= 0 => last'.status = 409)]_vars

\* a stale PATCH with a body was answered 409 while the .part file holds bytes
C1_Witness ==
    /\ IsPatch(last) /\ last.status = 409 /\ last.off = Some(0)
    /\ last.id \in DOMAIN part /\ Len(part[last.id]) = 1

\* the bytes an upload holds after the request: its .part file, or the
\* long-term file the .part file was renamed to
StoredBytes(l) == IF l.saved = None THEN part[l.id] ELSE lts[l.saved[1]]

\* C2: after a PATCH answered 204, the Upload-Offset of the response is the
\* size of the .part file with the body appended (of the long-term file when
\* the request completed the upload), and the row's upload_offset is that
\* same number.
C2_OffsetIsPartSize ==
    IsPatch(last) /\ last.status = 204 =>
        /\ last.offset = Some(Len(StoredBytes(last)))
        /\ records[last.id].upload_offset = Len(StoredBytes(last))

\* a second PATCH was answered 204 with Upload-Offset 2, the upload goes on
C2_Witness ==
    /\ IsPatch(last) /\ last.status = 204 /\ last.off = Some(1)
    /\ last.offset = Some(2) /\ last.saved = None

\* C3: every row whose upload_length is known has
\* 0 <= upload_offset <= upload_length.
C3_OffsetWithinLength ==
    \A u \in DOMAIN records :
        records[u].upload_length # None =>
            /\ 0 <= records[u].upload_offset
            /\ records[u].upload_offset <= records[u].upload_length[1]

\* a request with a digest that is not the digest of the bytes that arrived,
\* which passes the checks made before the body is read
MismatchPatch(l) ==
    /\ IsPatch(l) /\ l.sum = "mismatch"
    /\ l.id \in DOMAIN records /\ l.id \in DOMAIN part /\ l.id \notin DOMAIN stream
    /\ l.ct \in {None, Some(OCTET)} /\ l.off = Some(Len(part[l.id]))
    /\ ~records[l.id].upload_length_deferred

MismatchPost(l) == IsUploadPost(l) /\ l.sum = "mismatch" /\ l.with_body

\* C4: a PATCH or a creation-with-upload POST whose Upload-Checksum digest is
\* not the digest of the received body is answered 460, leaves no .stream
\* file, and leaves the .part file as it was (empty, for the POST), with the
\* row's offset unchanged.
C4_ChecksumMismatch ==
    [][/\ MismatchPatch(last') =>
             /\ last'.status = 460
             /\ part' = part /\ stream' = stream /\ records' = records /\ lts' = lts
       /\ MismatchPost(last') =>
             /\ last'.status = 460
             /\ last'.id \notin DOMAIN stream'
             /\ part'[last'.id] = <<>>
             /\ records'[last'.id].upload_offset = 0]_vars

\* a PATCH with a wrong digest was answered 460 and the byte stored before
\* it is still the whole .part file
C4_Witness ==
    /\ IsPatch(last) /\ last.sum = "mismatch" /\ last.status = 460
    /\ last.off = Some(1) /\ Len(part[last.id]) = 1 /\ last.id \notin DOMAIN stream

\* C5: when a PATCH completes an upload, the long-term file holds the bytes
\* of all the bodies the server accepted for it, in the order of the
\* requests: the file is the same however the bytes were cut into requests.
C5_ChunkingInvisible ==
    IsPatch(last) /\ last.status = 204 /\ last.saved # None =>
        /\ last.saved[1] \in DOMAIN lts
        /\ lts[last.saved[1]] = received[last.id]

\* two bytes that came in two requests were saved
C5_Witness ==
    /\ IsPatch(last) /\ last.status = 204 /\ last.saved # None /\ last.off = Some(1)
    /\ lts[last.saved[1]] = <<"P", "x">>

(***************************************************************************)
(* Properties of SpecConcat.                                               *)
(***************************************************************************)
IsFinalPost(l) == l.op = "POST" /\ l.concat = "final"

\* the uploads the URLs of the header name all have a row
MembersExist(l) == \A i \in 1..Len(UrlIds(l.text)) : UrlIds(l.text)[i] \in DOMAIN records

IsFinal(row) == row.upload_concat_id_list # None
IsPartial(row) == row.upload_concatenation /\ ~IsFinal(row)

RECURSIVE SumOfLengths(_)
SumOfLengths(l) ==
    IF l = <<>> THEN 0 ELSE records[Head(l)[1]].upload_length[1] + SumOfLengths(Tail(l))

\* C6: every complete row that is not a partial upload has a file at its
\* upload_lts_path, whose size is the row's upload_length or, for a final,
\* the sum of its members' upload_length.
C6_CompleteHasFileOfDeclaredSize ==
    \A u \in DOMAIN records :
        LET row == records[u] IN
        row.upload_complete /\ ~IsPartial(row) =>
            /\ row.upload_lts_path # None
            /\ row.upload_lts_path[1] \in DOMAIN lts
            /\ IF IsFinal(row)
               THEN (\A i \in 1..Len(row.upload_concat_id_list[1]) :
                        row.upload_concat_id_list[1][i][1] \in DOMAIN records)
                    => Len(lts[row.upload_lts_path[1]]) =
                          SumOfLengths(row.upload_concat_id_list[1])
               ELSE Len(lts[row.upload_lts_path[1]]) = row.upload_length[1]

RECURSIVE PartsInOrder(_)
\* the .part files of the uploads ids names, one after the other
PartsInOrder(ids) == IF ids = <<>> THEN <<>> ELSE part[Head(ids)] \o PartsInOrder(Tail(ids))

Assembled(l) == IsFinalPost(l) /\ l.status = 201 /\ ~l.unfinished

\* C7: when a final POST assembles its members, the long-term file of the
\* final holds the members' .part files in the order of the header's URLs,
\* and nothing else.
C7_AssembledInHeaderOrder ==
    Assembled(last) =>
        /\ records[last.id].upload_lts_path # None
        /\ records[last.id].upload_lts_path[1] \in DOMAIN lts
        /\ lts[records[last.id].upload_lts_path[1]] = PartsInOrder(UrlIds(last.text))

\* the header named upload 2 before upload 1 and the file is 2's byte, then 1's
C7_Witness ==
    /\ Assembled(last) /\ UrlIds(last.text) = <<2, 1>>
    /\ part[1] = <<"P">> /\ part[2] = <<"x">>
    /\ lts[records[last.id].upload_lts_path[1]] = <<"x", "P">>

CompletePartial(u) == IsPartial(records[u]) /\ records[u].upload_complete

\* C8: for a final POST whose URLs all name uploads of this server, the parsed
\* list is the ids of the URLs, in header order; with metadata and two
\* complete partial members the answer is 201.
C8_ParsedListIsTheIds ==
    [][IsFinalPost(last') /\ MembersExist(last') =>
          /\ last'.parsed = [i \in 1..Len(UrlIds(last'.text)) |-> <<UrlIds(last'.text)[i]>>]
          /\ (/\ last'.has_meta
              /\ Len(UrlIds(last'.text)) = 2
              /\ \A i \in 1..2 : CompletePartial(UrlIds(last'.text)[i])
              => last'.status = 201)]_vars

\* C9: a final POST whose members all exist, one of them not complete, makes
\* the row of the final, is answered 201 with Tus-Extension:
\* concatenation-unfinished, and writes no long-term file: the row is not
\* complete and has no upload_lts_path.
C9_UnfinishedFinal ==
    [][/\ IsFinalPost(last') /\ MembersExist(last')
       /\ \E i \in 1..Len(UrlIds(last'.text)) : ~records[UrlIds(last'.text)[i]].upload_complete
       => /\ last'.status = 201 /\ last'.created /\ last'.unfinished
          /\ lts' = lts
          /\ last'.id \in DOMAIN records'
          /\ ~records'[last'.id].upload_complete
          /\ records'[last'.id].upload_lts_path = None]_vars

(***************************************************************************)
(* Properties of SpecExpire.                                               *)
(***************************************************************************)
Expired(u) == records[u].time_expires < now

Same(f, g, u) == (u \in DOMAIN f <=> u \in DOMAIN g) /\ (u \in DOMAIN f => f[u] = g[u])

\* C10: a reap at minute now removes the row and the work folder of every
\* upload with time_expires < now, and leaves the row, the work folder and
\* the files of every other upload as they were.
C10_ReapExactlyExpired ==
    [][last'.op = "REAP" =>
          \A u \in DOMAIN records :
              IF Expired(u)
              THEN u \notin DOMAIN records' /\ u \notin dirs' /\ u \notin DOMAIN part'
              ELSE /\ Same(records, records', u)
                   /\ (u \in dirs <=> u \in dirs')
                   /\ Same(part, part', u)
                   /\ Same(stream, stream', u)]_vars

\* after a reap at minute 2, the upload that expired at minute 1 is gone and
\* the one that expires at minute 2 is there, with its work folder
C10_Witness ==
    /\ last.op = "REAP" /\ now = 2
    /\ 1 \notin DOMAIN records /\ 1 \notin dirs
    /\ 2 \in DOMAIN records /\ records[2].time_expires = 2 /\ 2 \in dirs

\* C11: the time_expires of every row is the row's time_created plus
\* TUS_EXPIRE minutes.
C11_ExpiresIsCreationPlusExpire ==
    \A u \in DOMAIN records :
        records[u].time_expires = records[u].time_created + TUS_EXPIRE

\* C12: a DELETE for an id that has a row removes the row and the work
\* folder with its files and is answered 204; a DELETE for an id without a
\* row is answered 404 and changes no row and no file.
C12_Delete ==
    [][last'.op = "DELETE" =>
          IF last'.id \in DOMAIN records
          THEN /\ last'.status = 204
               /\ last'.id \notin DOMAIN records'
               /\ last'.id \notin dirs'
               /\ last'.id \notin DOMAIN part' /\ last'.id \notin DOMAIN stream'
          ELSE /\ last'.status = 404
               /\ records' = records /\ dirs' = dirs /\ part' = part
               /\ stream' = stream /\ lts' = lts]_vars

\* the final concatenation 3, assembled from uploads 1 and 2, was deleted:
\* its row is gone, its file and its members are still there
C12_Witness ==
    /\ last.op = "DELETE" /\ last.id = 3 /\ last.status = 204
    /\ 3 \notin DOMAIN records /\ 3 \notin dirs
    /\ {1, 2} \subseteq dirs /\ DOMAIN lts # {}

\* C13: HEAD for an id without a row is answered 404; HEAD for an id with a
\* row is answered 204 with an Upload-Offset and with Upload-Defer-Length: 1
\* (and no Upload-Length) when the length is deferred, Upload-Length: <n>
\* (and no Upload-Defer-Length) when it is known.
C13_HeadOfEveryRecord ==
    last.op = "HEAD" =>
        IF last.id \notin DOMAIN records THEN last.status = 404
        ELSE /\ last.status = 204
             /\ last.offset # None
             /\ IF records[last.id].upload_length_deferred
                THEN last.defer_length = Some(1) /\ last.upload_length = None
                ELSE /\ last.defer_length = None
                     /\ records[last.id].upload_length # None
                     /\ last.upload_length = Some(records[last.id].upload_length)

\* the bytes of an upload: the long-term file of a complete upload that has
\* one, the .part file otherwise
Binary(u) ==
    LET row == records[u] IN
    IF row.upload_complete /\ row.upload_lts_path # None
    THEN IF row.upload_lts_path[1] \in DOMAIN lts THEN Some(lts[row.upload_lts_path[1]])
         ELSE None
    ELSE IF u \in DOMAIN part THEN Some(part[u]) ELSE None

\* C14: GET for an id with a row returns the upload's bytes (200), from the
\* long-term file when the upload is complete and saved, from the .part file
\* otherwise, and is answered 404 only when that file does not exist.
C14_GetReturnsStoredBytes ==
    last.op = "GET" /\ last.id \in DOMAIN records =>
        IF Binary(last.id) = None THEN last.status = 404
        ELSE last.status = 200 /\ last.body = Binary(last.id)

\* a PATCH at the current offset of an upload whose length is deferred, with
\* headers that pass every other check
DeferredPatch(l) ==
    /\ IsPatch(l)
    /\ l.id \in DOMAIN records /\ l.id \in DOMAIN part /\ l.id \notin DOMAIN stream
    /\ records[l.id].upload_length_deferred
    /\ l.ct \in {None, Some(OCTET)} /\ l.off = Some(Len(part[l.id]))
    /\ l.sum \in {"none", "match"}

\* C15: a PATCH at the current offset of a deferred upload with an
\* Upload-Length n, 0 < n <= TUS_MAX_FILE_SIZE, is answered 204, stores n as
\* upload_length and clears upload_length_deferred; when the body brings the
\* offset to n the upload is complete after the request.
C15_DeferredLengthAdopted ==
    [][/\ DeferredPatch(last')
       /\ last'.len # None /\ last'.len[1] > 0 /\ last'.len[1] <= TUS_MAX_FILE_SIZE
       => /\ last'.status = 204
          /\ records'[last'.id].upload_length = last'.len
          /\ ~records'[last'.id].upload_length_deferred
          /\ (last'.offset = last'.len => records'[last'.id].upload_complete)]_vars

\* C16: a PATCH at the current offset of a deferred upload without an
\* Upload-Length is answered 204 with its body appended, and the upload stays
\* deferred and not complete.
C16_DeferredStaysDeferred ==
    [][DeferredPatch(last') /\ last'.len = None
       => /\ last'.status = 204
          /\ last'.offset = Some(Len(part'[last'.id]))
          /\ Len(part'[last'.id]) >= Len(part[last'.id])
          /\ records'[last'.id].upload_length_deferred
          /\ ~records'[last'.id].upload_complete]_vars

\* C17: a POST (not a final) with both Upload-Length and
\* Upload-Defer-Length, or with neither, is answered 400 and makes no row; no
\* row has upload_length_deferred set together with a known upload_length.
C17_LengthXorDeferred ==
    /\ IsUploadPost(last) /\ (last.len = None <=> last.defer = None)
       => last.status = 400 /\ ~last.created
    /\ \A u \in DOMAIN records :
          records[u].upload_length_deferred => records[u].upload_length = None

\* C18: a POST that is neither partial nor final and whose Upload-Metadata
\* is absent or empty or lacks filename or filetype is rejected and makes no
\* row; every row that is neither a partial upload nor a final has filename
\* and filetype in its metadata.
C18_MetadataRequired ==
    /\ /\ IsUploadPost(last) /\ last.concat = "none"
       /\ ~({"filename", "filetype"} \subseteq MetaKeys(last.meta))
       => ~last.created /\ last.status \in {400, 413, 415, 460}
    /\ \A u \in DOMAIN records :
          ~records[u].upload_concatenation
          => {"filename", "filetype"} \subseteq DOMAIN records[u].upload_metadata

\* a request whose Upload-Checksum header is present and is not
\* `<algorithm> <hex>` with one space, a supported algorithm and a digest of
\* the algorithm's length, and which passes the checks made before it
Malformed(l) == l.sum \in {"empty", "spaces", "algorithm", "shape"}

MalformedPatch(l) ==
    /\ IsPatch(l) /\ Malformed(l)
    /\ l.id \in DOMAIN records /\ l.id \in DOMAIN part /\ l.id \notin DOMAIN stream
    /\ l.ct = Some(OCTET) /\ l.off = Some(Len(part[l.id])) /\ l.len = None
    /\ ~records[l.id].upload_length_deferred

MalformedPost(l) ==
    /\ IsUploadPost(l) /\ Malformed(l)
    /\ l.len # None /\ l.defer = None /\ l.len[1] <= TUS_MAX_FILE_SIZE

\* C19: a PATCH or POST whose Upload-Checksum header is present and is not
\* `<algorithm> <hex>` (one space, one of the ten algorithms, a hex digest of
\* that algorithm's length) is answered 460 and no byte of its body is
\* appended to the .part file.
C19_MalformedChecksumIs460 ==
    [][/\ MalformedPatch(last') => last'.status = 460 /\ part' = part
       /\ MalformedPost(last') =>
             /\ last'.status = 460
             /\ last'.id \in DOMAIN part' => part'[last'.id] = <<>>]_vars

\* the bytes a request added to the .part file
Added(l) == IF l.wrote = None THEN <<>> ELSE l.wrote[1]

Unsupported(content) ==
    get_mime_type(content) \notin (audio_types \cup video_types \cup image_types)

\* a PATCH that brings an upload that is not partial to its declared length
\* with content of a type outside the allow-list
EndsUnsupportedPatch(l) ==
    /\ IsPatch(l) /\ l.wrote # None
    /\ l.id \in DOMAIN records /\ l.id \in DOMAIN part
    /\ ~records[l.id].upload_concatenation
    /\ records[l.id].upload_length = Some(Len(part[l.id]) + Len(Added(l)))
    /\ Unsupported(part[l.id] \o Added(l))

\* a POST that creates such an upload whole
EndsUnsupportedPost(l) ==
    /\ IsUploadPost(l) /\ l.concat = "none" /\ l.created
    /\ l.sum \in {"none", "match", "spaces"} /\ l.out # "error"
    /\ l.len = Some(Len(Added(l)))
    /\ Unsupported(Added(l))

\* C20: when a request brings an upload that is not partial to its declared
\* length and the type sniffed from the .part file is outside the allow-list,
\* the request is answered 415, the row and the work folder are removed, and
\* no long-term file is created.
C20_UnsupportedMimeAtCompletion ==
    [][EndsUnsupportedPatch(last') \/ EndsUnsupportedPost(last') =>
          /\ last'.status = 415
          /\ last'.id \notin DOMAIN records'
          /\ last'.id \notin dirs'
          /\ last'.id \notin DOMAIN part'
          /\ last'.id \notin DOMAIN stream'
          /\ lts' = lts]_vars

\* a second PATCH brought a two-byte text upload to its length; it was
\* answered 415 and the row and the work folder are gone
C20_Witness ==
    /\ IsPatch(last) /\ last.status = 415 /\ last.off = Some(1)
    /\ last.wrote = Some(<<"x">>)
    /\ last.id \notin DOMAIN records /\ last.id \notin dirs

\* C21: a POST whose Upload-Concat header is present and is neither
\* `partial` nor a value that starts with `final;` is answered 400 and makes
\* no row.
C21_ConcatHeaderValue ==
    IsUploadPost(last) /\ last.concat \notin {"none", "partial"}
    => last.status = 400 /\ ~last.created

\* C22: a body that would make the stored bytes of an upload exceed
\* max_file_size is rejected: no .part file is ever larger than max_file_size.
C22_PartWithinMaxFileSize ==
    \A u \in DOMAIN part : Len(part[u]) <= TUS_MAX_FILE_SIZE

\* a PATCH answered with a protocol error; 415 counts when it is the answer
\* to the Content-Type header
ProtocolError(l) ==
    /\ IsPatch(l)
    /\ \/ l.status \in {400, 404, 409, 413, 460}
       \/ l.status = 415 /\ l.ct \notin {None, Some(OCTET)}

RowFields(row) ==
    <<row.upload_length, row.upload_length_deferred, row.upload_offset, row.upload_complete>>

\* C23: a PATCH answered 400, 404, 409, 413, 460, or 415 for its
\* Content-Type, leaves the row's upload_length, upload_length_deferred,
\* upload_offset and upload_complete and the .part file as they were.
C23_ProtocolErrorChangesNothing ==
    [][ProtocolError(last') =>
          /\ DOMAIN records' = DOMAIN records
          /\ \A u \in DOMAIN records : RowFields(records'[u]) = RowFields(records[u])
          /\ part' = part]_vars

\* a PATCH with an Upload-Length above max_file_size was answered 413 and
\* the upload still has its one byte
C23_Witness ==
    /\ IsPatch(last) /\ last.status = 413 /\ last.wrote = None
    /\ last.id \in DOMAIN records /\ records[last.id].upload_offset = 1
    /\ Len(part[last.id]) = 1

\* a POST that was turned down by one of the checks made on its headers
RejectedPost(l) == l.op = "POST" /\ ~l.created

\* C24: a POST rejected during header validation (Upload-Defer-Length,
\* Upload-Concat, no length, Upload-Length above max_file_size, Content-Type,
\* Upload-Checksum, Upload-Metadata, a final that names an upload that does
\* not exist) creates no row and no work folder.
C24_RejectedPostCreatesNothing ==
    [][RejectedPost(last') =>
          /\ records' = records /\ dirs' = dirs /\ part' = part
          /\ last'.id \notin DOMAIN records' /\ last'.id \notin dirs'
          /\ last'.status \notin {201, 204}]_vars

\* a final that names upload 1, which exists, and upload 3, which does not,
\* was answered 404
C24_Witness ==
    /\ IsFinalPost(last) /\ last.status = 404 /\ ~last.created
    /\ last.text = <<1, 0, 3>> /\ 1 \in DOMAIN records /\ 1 \in dirs
    /\ DOMAIN records = {1}

\* C25: every complete row has exactly one of: a long-term path, the flag
\* of a partial upload (upload_concatenation); never both and never neither.
C25_CompleteHasPathXorPartial ==
    \A u \in DOMAIN records :
        records[u].upload_complete =>
            ((records[u].upload_lts_path # None) <=> ~records[u].upload_concatenation)

\* a row whose bytes were moved or assembled to long-term storage
Finalized(row) == row.upload_complete /\ row.upload_lts_path # None

\* C26: a row has a work folder if and only if it has not been finalized:
\* uploads in progress and complete partial uploads have one, uploads moved to
\* long-term storage and assembled finals have none.
C26_FolderIffNotFinalized ==
    \A u \in DOMAIN records : (u \in dirs) <=> ~Finalized(records[u])

\* a request that brings an upload that is not partial to its declared
\* length with content of an allowed type, and whose rename to the long-term
\* path fails
RenameFailsPatch(l) ==
    /\ IsPatch(l) /\ l.wrote # None /\ ~l.rename
    /\ l.id \in DOMAIN records /\ l.id \in DOMAIN part
    /\ ~records[l.id].upload_concatenation
    /\ records[l.id].upload_length = Some(Len(part[l.id]) + Len(Added(l)))
    /\ ~Unsupported(part[l.id] \o Added(l))

RenameFailsPost(l) ==
    /\ IsUploadPost(l) /\ l.concat = "none" /\ l.created /\ l.wrote # None /\ ~l.rename
    /\ l.len = Some(Len(Added(l)))
    /\ ~Unsupported(Added(l))

\* C27: when the move of the complete .part file to its long-term path
\* fails, the request is answered 500 and the row stays, not complete and
\* without a long-term path.
C27_FailedMoveIsNotComplete ==
    [][RenameFailsPatch(last') \/ RenameFailsPost(last') =>
          /\ last'.status = 500
          /\ last'.id \in DOMAIN records'
          /\ ~records'[last'.id].upload_complete
          /\ records'[last'.id].upload_lts_path = None]_vars

\* a PATCH at the right offset, with its whole body and no checksum, for an
\* upload with a known length
PlainPatch(l) ==
    /\ IsPatch(l) /\ l.out = "ok" /\ l.sum = "none" /\ l.ct = Some(OCTET) /\ l.len = None
    /\ l.id \in DOMAIN records /\ l.id \in DOMAIN part
    /\ l.off = Some(Len(part[l.id]))
    /\ ~records[l.id].upload_length_deferred

\* C28: a PATCH that fails with 500 because the body stream raised leaves the
\* row and the .part file, and a later PATCH with the size of the .part file
\* as its Upload-Offset is accepted and its body is appended.
C28_RetryAfterStreamFailure ==
    [][/\ IsPatch(last') /\ last'.out = "error" /\ last'.status = 500
          /\ last'.id \in DOMAIN records /\ last'.id \in DOMAIN part
          => /\ last'.id \in DOMAIN records' /\ part' = part
       /\ IsPatch(last) /\ last.out = "error" /\ last.status = 500 /\ PlainPatch(last')
          => /\ last'.status # 500 /\ last'.wrote # None
             /\ Len(part[last'.id]) + Len(last'.wrote[1]) =
                    IF last'.id \in DOMAIN part' THEN Len(part'[last'.id])
                    ELSE Len(part[last'.id]) + Len(last'.wrote[1])]_vars

\* a PATCH at the right offset whose client disconnects before the end of
\* the body, for an upload with a known length and no scratch file left
DisconnectedPatch(l) ==
    /\ IsPatch(l) /\ l.out = "disconnect" /\ l.ct = Some(OCTET) /\ l.len = None
    /\ l.id \in DOMAIN records /\ l.id \in DOMAIN part /\ l.id \notin DOMAIN stream
    /\ l.off = Some(Len(part[l.id]))
    /\ ~records[l.id].upload_length_deferred

\* C29: when the client disconnects in the middle of a PATCH body the request
\* raises no error; without a checksum the bytes that arrived are appended to
\* the .part file, the scratch file is removed and the row's offset is the new
\* size; with a checksum the scratch file is discarded and the .part file is
\* unchanged.
C29_Disconnect ==
    [][DisconnectedPatch(last') =>
          /\ last'.status # 500
          /\ last'.id \notin DOMAIN stream'
          /\ last'.sum = "none" =>
                /\ last'.wrote # None
                /\ last'.id \in DOMAIN part' =>
                      /\ part'[last'.id] = part[last'.id] \o last'.wrote[1]
                      /\ records'[last'.id].upload_offset = Len(part'[last'.id])
          /\ last'.sum # "none" =>
                last'.id \in DOMAIN part' /\ part'[last'.id] = part[last'.id]]_vars

\* C30: of PATCH requests for one upload whose bodies are read at the same
\* time, at most one appends: a request that appends does so at the offset it
\* declared, the .part file becomes the old content followed by its body, and
\* the row's offset is the new size.
C30_OneAppendPerOffset ==
    [][IsPatch(last') /\ last'.wrote # None =>
          /\ last'.id \in DOMAIN part
          /\ last'.off = Some(Len(part[last'.id]))
          /\ last'.wrote = Some(last'.body)
          /\ last'.id \in DOMAIN part' =>
                /\ part'[last'.id] = part[last'.id] \o last'.body
                /\ records'[last'.id].upload_offset = Len(part'[last'.id])
          /\ last'.saved # None =>
                lts'[last'.saved[1]] = part[last'.id] \o last'.body]_vars

\* a PATCH added its byte after the byte that was there, while another PATCH
\* with the same offset came in and was turned down
C30_Witness ==
    /\ IsPatch(last) /\ last.overlapped /\ last.status = 204 /\ last.off = Some(1)
    /\ last.id \in DOMAIN part /\ Len(part[last.id]) = 2
    /\ records[last.id].upload_offset = 2

\* a request that moved a complete upload's file to long-term storage and
\* whose post_file_complete hook then raised
HookFailed(l) ==
    /\ IsPatch(l) \/ IsUploadPost(l)
    /\ l.hook = "post" /\ l.rename /\ l.saved # None

\* C31: an error raised by the completion hook does not unwind the
\* finalization: after it the row is complete, its offset is its length, its
\* long-term path is set and the file is at that path.
C31_HookErrorKeepsFinalization ==
    HookFailed(last) =>
        /\ last.id \in DOMAIN records
        /\ records[last.id].upload_complete
        /\ records[last.id].upload_lts_path = last.saved
        /\ records[last.id].upload_length = Some(records[last.id].upload_offset)
        /\ last.saved[1] \in DOMAIN lts

\* a request that moved a complete upload's file to a long-term path
Finalizing(l) == (IsPatch(l) \/ IsUploadPost(l)) /\ l.rename /\ l.saved # None

\* C32: under the RENAME policy the path a finalizing upload is moved to
\* names no file that exists, whatever the random suffix is: every long-term
\* file of before the request is still there with its content.
C32_RenameNeverOverwrites ==
    [][file_match_policy = "RENAME" /\ Finalizing(last') =>
          /\ last'.saved[1] \notin DOMAIN lts
          /\ \A p \in DOMAIN lts : p \in DOMAIN lts' /\ lts'[p] = lts[p]]_vars

IsPrefix(a, b) == Len(a) <= Len(b) /\ SubSeq(b, 1, Len(a)) = a

\* C33: no request lowers the upload_offset of a row that stays, and the
\* .part file of an upload only grows at its end: what it held before a
\* request is a prefix of what it holds after it.
C33_OffsetAndPartOnlyGrow ==
    [][\A u \in (DOMAIN records) \cap (DOMAIN records') :
          /\ records'[u].upload_offset >= records[u].upload_offset
          /\ u \in (DOMAIN part) \cap (DOMAIN part') => IsPrefix(part[u], part'[u])]_vars

\* a second PATCH has extended a .part file that already held a byte
C33_Witness ==
    /\ IsPatch(last) /\ last.status = 204 /\ last.off = Some(1) /\ last.wrote # None
    /\ last.id \in DOMAIN part /\ Len(part[last.id]) = 2
    /\ records[last.id].upload_offset = 2

\* C34: a complete row that is not a concatenation final has its offset at
\* its length, so no PATCH after the completion has added bytes to it.
C34_CompleteStaysAtLength ==
    \A u \in DOMAIN records :
        records[u].upload_complete /\ ~IsFinal(records[u]) =>
            records[u].upload_length = Some(records[u].upload_offset)

\* a final row that has not been assembled
Unassembled(row) == IsFinal(row) /\ ~row.upload_complete

\* a step that is neither a final POST nor a DELETE
MemberStep(l) == ~IsFinalPost(l) /\ l.op # "DELETE"

\* C35: a final row that is not complete stays as it is under every PATCH
\* and every POST that is not a final one, also when these complete its
\* members: it is not marked complete, gets no long-term path, and every
\* long-term file such a request writes is the file of an upload that is no
\* final.
C35_UnfinishedFinalStays ==
    [][MemberStep(last') =>
          /\ \A u \in DOMAIN records :
                Unassembled(records[u]) => u \in DOMAIN records' /\ records'[u] = records[u]
          /\ \A p \in DOMAIN lts' :
                p \notin DOMAIN lts \/ lts'[p] # lts[p] =>
                    \E v \in DOMAIN records' :
                        ~IsFinal(records'[v]) /\ records'[v].upload_lts_path = Some(p)]_vars

\* a final row with a file name and a type, not complete, all of whose
\* members are complete and have their .part files: it was made while a
\* member was incomplete, and the members were completed later
C35_Witness ==
    \E u \in DOMAIN records :
        /\ Unassembled(records[u])
        /\ records[u].upload_lts_path = None
        /\ DOMAIN records[u].upload_metadata = {"filename", "filetype"}
        /\ Len(records[u].upload_concat_id_list[1]) = 2
        /\ \A i \in 1..Len(records[u].upload_concat_id_list[1]) :
              LET m == records[u].upload_concat_id_list[1][i] IN
              /\ IsHexId(m) /\ m[1] \in DOMAIN records /\ m[1] \in DOMAIN part
              /\ records[m[1]].upload_complete

\* C36: the reap that save_lts_file runs spares the upload being finalized:
\* a request that moves a complete upload's file to long-term storage
\* succeeds and leaves that upload's row, complete, whatever the time is.
C36_ReapSparesFinalizing ==
    Finalizing(last) =>
        /\ last.status \in {201, 204}
        /\ last.id \in DOMAIN records
        /\ records[last.id].upload_complete

\* a DELETE or a reap that removed the row of an upload that had been
\* finalized
RemovesFinalized(u) ==
    /\ last'.op \in {"DELETE", "REAP"}
    /\ u \in DOMAIN records /\ u \notin DOMAIN records'
    /\ Finalized(records[u])

\* C37: the DELETE or the reap of a finalized upload removes its row and
\* what is left of its work folder and leaves the file at its long-term path
\* as it is; and a long-term file is removed or rewritten by no request but a
\* finalization to its own path under the REPLACE policy.
C37_LongTermFilesStay ==
    [][/\ \A u \in DOMAIN records :
             RemovesFinalized(u) =>
                 /\ u \notin dirs' /\ u \notin DOMAIN part' /\ u \notin DOMAIN stream'
                 /\ lts' = lts
       /\ \A p \in DOMAIN lts :
             p \notin DOMAIN lts' \/ lts'[p] # lts[p] =>
                 /\ file_match_policy = "REPLACE"
                 /\ Finalizing(last') /\ last'.saved = Some(p)]_vars

\* a final POST that made its row and whose assembly then failed
AssemblyFailed(l) == IsFinalPost(l) /\ l.created /\ ~l.unfinished /\ l.status # 201

\* C38: a final POST whose assembly fails leaves nothing behind: no row for
\* the final and no new or rewritten long-term file.
C38_FailedAssemblyLeavesNothing ==
    [][AssemblyFailed(last') =>
          /\ last'.id \notin DOMAIN records'
          /\ \A p \in DOMAIN lts' : p \in DOMAIN lts /\ lts'[p] = lts[p]]_vars

\* caller c's PATCH ends in this step, and the row of its upload was removed
\* while its body was being read (the row was there when the PATCH began,
\* and an id is never given twice)
EndsAfterRemoval(c) ==
    /\ c \in DOMAIN calls /\ c \notin DOMAIN calls'
    /\ calls[c].id \notin DOMAIN records

\* C39: when a DELETE or a reap removes an upload while a PATCH for it is
\* reading its body, the PATCH is not answered with success, and after it
\* the upload has no row, no work folder, no .part and no .stream file.
C39_PatchAfterRemoval ==
    [][\A c \in Callers :
          EndsAfterRemoval(c) =>
              LET u == calls[c].id IN
              /\ IsPatch(last') /\ last'.caller = c /\ last'.status >= 400
              /\ u \notin DOMAIN records' /\ u \notin dirs'
              /\ u \notin DOMAIN part' /\ u \notin DOMAIN stream']_vars

\* a PATCH whose upload was removed while its body was being read has ended,
\* answered 500
C39_Witness ==
    /\ IsPatch(last) /\ last.status = 500 /\ last.wrote = None
    /\ last.id \notin DOMAIN records /\ last.id \notin dirs
    /\ nextId = 2 /\ calls = <<>>

====
